---- MODULE Spec2Model ----
(***************************************************************************)
(* Model of the markdown-to-HTML response middleware of src/src/markdown.rs *)
(* (actix-web).  One response travels through the middleware:              *)
(*   - WrapperStream::poll resolves the downstream service future and      *)
(*     wraps the response body into MarkdownResponse::Active or ::Inactive *)
(*   - the transport then pulls the wrapped body with                      *)
(*     MessageBody::poll_next.                                             *)
(* The wrapped (original) body is an arbitrary MessageBody: on every pull  *)
(* it may return a chunk, Pending, an error or the end of the body, and it *)
(* declares a BodySize that need not agree with what it delivers.          *)
(*                                                                         *)
(* Bytes are modelled as tokens: "a" and "b" are ASCII letters, "FF" is    *)
(* the byte 0xFF (never valid in UTF-8).  Strings are sequences of         *)
(* characters, "U+FFFD" being the replacement character.  The markdown     *)
(* parser is modelled on this alphabet only (letters without line breaks   *)
(* or markup characters form one paragraph).                               *)
(***************************************************************************)
EXTENDS Integers, Sequences, FiniteSets, TLC

\* ---------------------------------------------------------------- bounds
\* Largest declared exact size (BodySize::Sized / Sized64) that is enumerated.
MaxSize == 2
\* Number of pulls (poll_next calls) on the wrapped response body.
MaxPulls == 3
\* Number of times the downstream service future may answer Pending.
MaxFutPending == 1
\* Number of pulls on each of the two responses of PairSpec.
MaxPairPulls == 2
\* Number of pulls on which a well-behaved wrapped body makes no progress
\* (Pending or an empty chunk) before it delivers.
MaxStall == 2

\* ------------------------------------------------------------ input sets
\* Chunks the wrapped body may return (an empty chunk is a legal item).
Chunks == {<< >>, <<"a">>, <<"a", "b">>, <<"FF">>}

Absent == "<absent>"

\* Values of the content-type header produced downstream.
ContentTypes ==
  {Absent, "text/markdown", "text/markdown; charset=utf-8", "Text/Markdown",
   "text/plain"}

\* Values of the content-length header produced downstream.
ContentLengths == {Absent, "2"}

Statuses == {200, 404}

\* Values of another header (etag) produced downstream.
Etags == {Absent, "v1"}

HeaderNames == {"content-type", "content-length", "etag"}

\* BodySize of the wrapped body (actix_web::body::BodySize).
BodySizes ==
  {[kind |-> k, n |-> 0] : k \in {"None", "Empty", "Stream"}}
    \cup {[kind |-> k, n |-> n] : k \in {"Sized", "Sized64"}, n \in 0..MaxSize}

Stream == [kind |-> "Stream", n |-> 0]

\* Poll<Option<Result<Bytes, Error>>> as a record.
Pending == [tag |-> "Pending", data |-> << >>]
End == [tag |-> "End", data |-> << >>]
Err(e) == [tag |-> "Err", data |-> <<e>>]
Chunk(c) == [tag |-> "Chunk", data |-> c]

\* What one pull of the wrapped body may return.
InnerResults == {Pending, End, Err("E1")} \cup {Chunk(c) : c \in Chunks}

\* ------------------------------------------------------ conversion engine
ShellOpen == "<!DOCTYPE html><html><head><title>Markdown Page</title></head><body>"
ShellClose == "</body></html>"

\* String::from_utf8_lossy: every invalid byte becomes U+FFFD.
Lossy(bytes) ==
  [i \in 1..Len(bytes) |-> IF bytes[i] = "FF" THEN "U+FFFD" ELSE bytes[i]]

\* html::push_html(Parser::new_ext(s, Options::empty())) on text made of
\* letters and U+FFFD: nothing for the empty document, else one paragraph.
PushHtml(s) ==
  IF s = << >> THEN << >> ELSE <<"<p>">> \o s \o <<"</p>", "\n">>

RECURSIVE Utf8(_)
\* Bytes::from(String): the UTF-8 encoding of the string.
Utf8(s) ==
  IF s = << >> THEN << >>
  ELSE (IF Head(s) = "U+FFFD" THEN <<"EF", "BF", "BD">> ELSE <<Head(s)>>)
         \o Utf8(Tail(s))

\* Lines 153-161: the converted document for an accumulation buffer.
Convert(buffer) ==
  Utf8(<<ShellOpen>> \o PushHtml(Lossy(buffer)) \o <<ShellClose>>)

\* ---------------------------------------------------------------- state
VARIABLES
  stage,        \* "call": service future unresolved; "failed": it resolved
                \* to an error; "body": response wrapped, body being pulled
  futPending,   \* times the service future answered Pending
  origStatus,   \* status of the response produced downstream
  origHeaders,  \* headers of the response produced downstream
  status,       \* status of the response returned by the middleware
  headers,      \* headers of the response returned by the middleware
  mode,         \* ConditionalResponse variant: "Active" / "Inactive"
  bodySize,     \* size() of the wrapped (original) body
  buffer,       \* MarkdownBody.buffer
  innerLog,     \* results the wrapped body returned, one per pull
  outLog,       \* results MarkdownResponse::poll_next returned, one per pull
  woke,         \* the last pull called cx.waker().wake()
  resp          \* PairSpec: the bodies of two responses in flight at once,
                \* each with its own mode, bodySize, buffer and logs

vars ==
  <<stage, futPending, origStatus, origHeaders, status, headers, mode,
    bodySize, buffer, innerLog, outLog, woke, resp>>

NoHeaders == [h \in HeaderNames |-> Absent]

\* All header maps the downstream service may produce.
HeaderMaps ==
  {[h \in HeaderNames |->
      IF h = "content-type" THEN ct
      ELSE IF h = "content-length" THEN cl ELSE et] :
        ct \in ContentTypes, cl \in ContentLengths, et \in Etags}

\* ---------------------------------------------------- WrapperStream::poll
\* Variant of IsMarkdown comparing the media type without regard to case.
IsMarkdown_IgnoreCase(h) ==
  h["content-type"] \in {"text/markdown", "Text/Markdown"}

\* Lines 93-97: the content-type header is present and equals text/markdown.
IsMarkdown(h) ==
  IF h["content-type"] = Absent THEN FALSE
  ELSE h["content-type"] = "text/markdown"

\* Variant of InsertContentType that also removes content-length.
InsertContentType_DropLength(h) ==
  [h EXCEPT !["content-type"] = "text/html", !["content-length"] = Absent]

\* Lines 99-102: headers_mut().insert(CONTENT_TYPE, "text/html").
InsertContentType(h) == [h EXCEPT !["content-type"] = "text/html"]

\* Lines 93-111: headers of the response the middleware returns.
WrapHeaders(h) == IF IsMarkdown(h) THEN InsertContentType(h) ELSE h

\* Lines 93-111: variant of ConditionalResponse installed by map_body.
WrapMode(h) == IF IsMarkdown(h) THEN "Active" ELSE "Inactive"

\* Lines 64-71: a new, empty buffer (the capacity is only an allocation hint).
get_buffer_with_capacity(capacity) == << >>

\* Line 90: the service future is not ready; futures::ready! returns Pending.
ServicePending ==
  /\ stage = "call"
  /\ futPending < MaxFutPending
  /\ futPending' = futPending + 1
  /\ UNCHANGED <<stage, origStatus, origHeaders, status, headers, mode,
                 bodySize, buffer, innerLog, outLog, woke, resp>>

\* Line 92: res.map on an Err leaves the error untouched.
ServiceError ==
  /\ stage = "call"
  /\ stage' = "failed"
  /\ UNCHANGED <<futPending, origStatus, origHeaders, status, headers, mode,
                 bodySize, buffer, innerLog, outLog, woke, resp>>

\* Lines 92-112: the service produced a response; its body is wrapped.
ServiceReady ==
  /\ stage = "call"
  /\ \E h \in HeaderMaps, st \in Statuses, sz \in BodySizes :
       /\ origHeaders' = h
       /\ origStatus' = st
       /\ status' = st
       /\ headers' = WrapHeaders(h)
       /\ mode' = WrapMode(h)
       /\ bodySize' = sz
       /\ buffer' = IF WrapMode(h) = "Active"
                      THEN get_buffer_with_capacity(sz) ELSE << >>
  /\ stage' = "body"
  /\ UNCHANGED <<futPending, innerLog, outLog, woke, resp>>

\* Lines 89-113.
WrapperStream_poll == ServicePending \/ ServiceError \/ ServiceReady

\* ------------------------------------------------------------ MarkdownBody
\* Variant of is_complete requiring the buffer to exceed the declared size.
is_complete_Strict(size, buffer_len) ==
  CASE size.kind \in {"None", "Empty"} -> TRUE
    [] size.kind = "Sized" -> size.n < buffer_len
    [] size.kind = "Sized64" -> size.n < buffer_len
    [] OTHER -> FALSE

\* Variant of is_complete requiring the buffer to match the declared size.
is_complete_Exact(size, buffer_len) ==
  CASE size.kind \in {"None", "Empty"} -> TRUE
    [] size.kind = "Sized" -> size.n = buffer_len
    [] size.kind = "Sized64" -> size.n = buffer_len
    [] OTHER -> FALSE

\* Lines 122-130: MarkdownBody::is_complete.
is_complete(size, buffer_len) ==
  CASE size.kind \in {"None", "Empty"} -> TRUE
    [] size.kind = "Sized" -> size.n <= buffer_len
    [] size.kind = "Sized64" -> size.n <= buffer_len
    [] OTHER -> FALSE

\* Variant of size reporting the wrapped body's size for both variants.
size_PassThrough(m, sz) == sz

\* Lines 134-140: MarkdownResponse::size.
size(m, sz) == IF m = "Active" THEN Stream ELSE sz

\* Variant of ActivePollNext converting the chunk just received instead of
\* the accumulation buffer.
ActivePollNext_LastChunkOnly(inner, buf, sz) ==
  IF inner.tag = "Chunk"
    THEN LET b == buf \o inner.data
         IN  IF ~is_complete(sz, Len(b))
               THEN [result |-> Pending, buffer |-> b, woke |-> TRUE]
               ELSE [result |-> Chunk(Convert(inner.data)), buffer |-> b,
                     woke |-> FALSE]
    ELSE [result |-> inner, buffer |-> buf, woke |-> FALSE]

\* Variant of ActivePollNext rejecting a buffer that is not valid UTF-8.
ActivePollNext_StrictUtf8(inner, buf, sz) ==
  IF inner.tag = "Chunk"
    THEN LET b == buf \o inner.data
         IN  IF ~is_complete(sz, Len(b))
               THEN [result |-> Pending, buffer |-> b, woke |-> TRUE]
               ELSE IF \E i \in 1..Len(b) : b[i] = "FF"
                 THEN [result |-> Err("Utf8Error"), buffer |-> b,
                       woke |-> FALSE]
                 ELSE [result |-> Chunk(Convert(b)), buffer |-> b,
                       woke |-> FALSE]
    ELSE [result |-> inner, buffer |-> buf, woke |-> FALSE]

\* Variant of ActivePollNext returning Pending without waking the task.
ActivePollNext_NoWake(inner, buf, sz) ==
  IF inner.tag = "Chunk"
    THEN LET b == buf \o inner.data
         IN  IF ~is_complete(sz, Len(b))
               THEN [result |-> Pending, buffer |-> b, woke |-> FALSE]
               ELSE [result |-> Chunk(Convert(b)), buffer |-> b,
                     woke |-> FALSE]
    ELSE [result |-> inner, buffer |-> buf, woke |-> FALSE]

\* Variant of ActivePollNext releasing the buffer once it has been converted.
ActivePollNext_ClearOnEmit(inner, buf, sz) ==
  IF inner.tag = "Chunk"
    THEN LET b == buf \o inner.data
         IN  IF ~is_complete(sz, Len(b))
               THEN [result |-> Pending, buffer |-> b, woke |-> TRUE]
               ELSE [result |-> Chunk(Convert(b)), buffer |-> << >>,
                     woke |-> FALSE]
    ELSE [result |-> inner, buffer |-> buf, woke |-> FALSE]

\* Variant of ActivePollNext converting what was accumulated when the wrapped
\* body ends.
ActivePollNext_ConvertAtEnd(inner, buf, sz) ==
  IF inner.tag = "Chunk"
    THEN LET b == buf \o inner.data
         IN  IF ~is_complete(sz, Len(b))
               THEN [result |-> Pending, buffer |-> b, woke |-> TRUE]
               ELSE [result |-> Chunk(Convert(b)), buffer |-> b,
                     woke |-> FALSE]
    ELSE IF inner.tag = "End" /\ ~is_complete(sz, Len(buf))
      THEN [result |-> Chunk(Convert(buf)), buffer |-> buf, woke |-> FALSE]
      ELSE [result |-> inner, buffer |-> buf, woke |-> FALSE]

\* Lines 146-166: the Active arm of poll_next.
ActivePollNext(inner, buf, sz) ==
  IF inner.tag = "Chunk"
    THEN LET b == buf \o inner.data
         IN  IF ~is_complete(sz, Len(b))
               THEN [result |-> Pending, buffer |-> b, woke |-> TRUE]
               ELSE [result |-> Chunk(Convert(b)), buffer |-> b,
                     woke |-> FALSE]
    ELSE [result |-> inner, buffer |-> buf, woke |-> FALSE]

\* Variant of InactivePollNext treating the body as an Active one.
InactivePollNext_Buffering(inner, buf, sz) == ActivePollNext(inner, buf, sz)

\* Line 145: the Inactive arm of poll_next.
InactivePollNext(inner, buf, sz) ==
  [result |-> inner, buffer |-> buf, woke |-> FALSE]

\* Lines 142-168: MarkdownResponse::poll_next, for one result of the wrapped
\* body's poll_next.
poll_next(m, inner, buf, sz) ==
  IF m = "Inactive" THEN InactivePollNext(inner, buf, sz)
  ELSE ActivePollNext(inner, buf, sz)

\* One pull of the transport on the Dual-Mode body.
PollNext ==
  /\ stage = "body"
  /\ Len(innerLog) < MaxPulls
  /\ \E inner \in InnerResults :
       LET r == poll_next(mode, inner, buffer, bodySize)
       IN  /\ innerLog' = Append(innerLog, inner)
           /\ outLog' = Append(outLog, r.result)
           /\ buffer' = r.buffer
           /\ woke' = r.woke
  /\ UNCHANGED <<stage, futPending, origStatus, origHeaders, status, headers,
                 mode, bodySize, resp>>

\* The responses in flight in PairSpec.
Responses == {1, 2}

\* A response whose service future has not resolved yet.
NoBody ==
  [mode |-> "Unwrapped", bodySize |-> Stream, buffer |-> << >>,
   innerLog |-> << >>, outLog |-> << >>]

Init ==
  /\ stage = "call"
  /\ futPending = 0
  /\ origStatus = 0
  /\ origHeaders = NoHeaders
  /\ status = 0
  /\ headers = NoHeaders
  /\ mode = "Unwrapped"
  /\ bodySize = Stream
  /\ buffer = << >>
  /\ innerLog = << >>
  /\ outLog = << >>
  /\ woke = FALSE
  /\ resp = [r \in Responses |-> NoBody]

Next == WrapperStream_poll \/ PollNext

Spec == Init /\ [][Next]_vars

\* ------------------------------------------------------ derived histories
Pulls == 1..Len(innerLog)

RECURSIVE Flatten(_)
\* Concatenation, in arrival order, of the chunks in a log of results.
Flatten(log) ==
  IF log = << >> THEN << >>
  ELSE (IF Head(log).tag = "Chunk" THEN Head(log).data ELSE << >>)
         \o Flatten(Tail(log))

IsChunk(r) == r.tag = "Chunk"

\* The data chunks in a log of results, in order.
ChunksOf(log) == SelectSeq(log, IsChunk)

\* The wrapped body returned no error so far.
ErrorFree == \A i \in Pulls : innerLog[i].tag # "Err"

\* The wrapped body has reported its end, exactly once and on the last pull.
Ended ==
  /\ innerLog # << >>
  /\ innerLog[Len(innerLog)] = End
  /\ \A i \in 1..(Len(innerLog) - 1) : innerLog[i] # End

RECURSIVE Drain(_, _, _, _)
\* The results of pulling a Dual-Mode body whose wrapped body returns the
\* results `inners`, one per pull.
Drain(m, inners, buf, sz) ==
  IF inners = << >> THEN << >>
  ELSE LET r == poll_next(m, Head(inners), buf, sz)
       IN  <<r.result>> \o Drain(m, Tail(inners), r.buffer, sz)

\* First data chunk of a log of results, << >> when there is none.
FirstChunk(log) ==
  IF ChunksOf(log) = << >> THEN << >> ELSE <<ChunksOf(log)[1]>>

\* ------------------------------------------- well-behaved body, scheduling
\* Pulls on which the wrapped body made no progress.
Stalls ==
  Cardinality({i \in Pulls : innerLog[i] \in {Pending, Chunk(<< >>)}})

\* What a wrapped body that honours its declared size may return on the next
\* pull: chunks up to the declared size and then the end (any length up to
\* MaxSize for a streaming body, nothing for None / Empty), with a bounded
\* number of pulls without progress.
HonestResults ==
  LET got == Len(Flatten(innerLog))
      sized == bodySize.kind \in {"Sized", "Sized64"}
      room == IF sized THEN bodySize.n - got
              ELSE IF bodySize = Stream THEN MaxSize - got ELSE 0
  IN  {Chunk(c) : c \in {d \in Chunks : d # << >> /\ Len(d) <= room}}
        \cup (IF sized /\ room > 0 THEN {} ELSE {End})
        \cup (IF Stalls < MaxStall
                THEN {Pending} \cup
                     (IF bodySize.kind \in {"None", "Empty"}
                        THEN {} ELSE {Chunk(<< >>)})
                ELSE {})

\* The task that pulls the body is scheduled: it has not pulled yet, or its
\* last pull returned a value, or that pull woke the task itself (line 150),
\* or the wrapped body returned Pending and so wakes the task when ready.
Scheduled ==
  IF outLog = << >> THEN TRUE
  ELSE \/ outLog[Len(outLog)] # Pending
       \/ woke
       \/ innerLog[Len(innerLog)] = Pending

\* One pull by the transport on a body whose wrapped body is well-behaved;
\* the transport stops pulling at the end of the body.
HonestPollNext ==
  /\ stage = "body"
  /\ \A i \in Pulls : outLog[i] # End
  /\ Scheduled
  /\ \E inner \in HonestResults :
       LET r == poll_next(mode, inner, buffer, bodySize)
       IN  /\ innerLog' = Append(innerLog, inner)
           /\ outLog' = Append(outLog, r.result)
           /\ buffer' = r.buffer
           /\ woke' = r.woke
  /\ UNCHANGED <<stage, futPending, origStatus, origHeaders, status, headers,
                 mode, bodySize, resp>>

LiveNext == WrapperStream_poll \/ HonestPollNext

\* The scheduler re-invokes the pull whenever the task is scheduled.
LiveSpec == Init /\ [][LiveNext]_vars /\ WF_vars(HonestPollNext)

\* ------------------------------------------------- two responses in flight
\* The byte the wrapped body of response r delivers; the two differ so that
\* a byte of the other response is recognisable.
PairByte(r) == IF r = 1 THEN "a" ELSE "b"

\* What one pull of the wrapped body of response r may return.
PairResults(r) ==
  {Pending, End, Err("E1"), Chunk(<<PairByte(r)>>),
   Chunk(<<PairByte(r), PairByte(r)>>)}

\* Declared sizes of the wrapped bodies in PairSpec.
PairSizes == {Stream} \cup {[kind |-> "Sized", n |-> n] : n \in 0..MaxSize}

\* Content types of the responses in PairSpec.
PairContentTypes == {"text/markdown", "text/plain"}

\* Variant of BodyBuffer with one buffer shared by all responses.
BodyBuffer_Shared(rs, r) == rs[1].buffer

\* Lines 103-109, 148: the buffer a body reads and extends is the one created
\* for it when its response was wrapped.
BodyBuffer(rs, r) == rs[r].buffer

\* Lines 92-112: the service future of response r resolved; its body is
\* wrapped.
PairWrap(r) ==
  /\ resp[r].mode = "Unwrapped"
  /\ \E ct \in PairContentTypes, sz \in PairSizes :
       LET h == [NoHeaders EXCEPT !["content-type"] = ct]
       IN  resp' = [resp EXCEPT ![r] =
                      [mode |-> WrapMode(h), bodySize |-> sz,
                       buffer |-> IF WrapMode(h) = "Active"
                                    THEN get_buffer_with_capacity(sz)
                                    ELSE << >>,
                       innerLog |-> << >>, outLog |-> << >>]]
  /\ UNCHANGED <<stage, futPending, origStatus, origHeaders, status, headers,
                 mode, bodySize, buffer, innerLog, outLog, woke>>

\* Lines 142-168: one pull on the body of response r.
PairPollNext(r) ==
  /\ resp[r].mode # "Unwrapped"
  /\ Len(resp[r].innerLog) < MaxPairPulls
  /\ \E inner \in PairResults(r) :
       LET p == poll_next(resp[r].mode, inner, BodyBuffer(resp, r),
                          resp[r].bodySize)
       IN  resp' = [resp EXCEPT ![r].innerLog = Append(@, inner),
                                ![r].outLog = Append(@, p.result),
                                ![r].buffer = p.buffer]
  /\ UNCHANGED <<stage, futPending, origStatus, origHeaders, status, headers,
                 mode, bodySize, buffer, innerLog, outLog, woke>>

\* The pulls on the two responses interleave arbitrarily.
PairNext == \E r \in Responses : PairWrap(r) \/ PairPollNext(r)

PairSpec == Init /\ [][PairNext]_vars

\* ----------------------------------------------------------------- claims

\* C1: for an Active response whose wrapped body delivers its chunks without
\* error and then ends, the Dual-Mode body has emitted exactly one data chunk
\* over the whole sequence of pulls, on a pull after which no source chunk
\* arrives any more.
C1_ExactlyOneConvertedChunk ==
  (mode = "Active" /\ ErrorFree /\ Ended) =>
    \E i \in Pulls :
      /\ outLog[i].tag = "Chunk"
      /\ \A j \in Pulls : j # i => outLog[j].tag # "Chunk"
      /\ \A j \in Pulls : j > i => innerLog[j].tag # "Chunk"

\* C2: for an Inactive response every pull returns exactly what the wrapped
\* body returned on that pull, the declared size is the original declared
\* size, and nothing is buffered, converted or woken.
C2_InactivePassthrough ==
  (stage = "body" /\ mode = "Inactive") =>
    /\ outLog = innerLog
    /\ size(mode, bodySize) = bodySize
    /\ buffer = << >>
    /\ woke = FALSE

\* C2 witness: an Inactive body of declared exact size has passed a chunk and
\* then the end of the body through.
C2_Witness ==
  /\ mode = "Inactive"
  /\ bodySize.kind = "Sized"
  /\ Len(outLog) >= 2
  /\ outLog[1] = Chunk(<<"a", "b">>)
  /\ outLog[2] = End

\* C3: for an Active response of declared size zero or empty whose wrapped
\* body reports its end on the first pull, that first pull returns the
\* converted chunk made of the shell with empty inner content.
C3_EmptyBodyConverted ==
  ( /\ mode = "Active"
    /\ is_complete(bodySize, 0)
    /\ innerLog # << >>
    /\ innerLog[1] = End ) =>
    outLog[1] = Chunk(<<ShellOpen, ShellClose>>)

\* C4: for an Active response of unknown/streaming declared size, the pull on
\* which the wrapped body first reports "no more chunks" returns the
\* conversion of all the bytes received until then.
C4_StreamEndConverts ==
  (mode = "Active" /\ bodySize = Stream /\ ErrorFree) =>
    \A i \in Pulls :
      (innerLog[i] = End /\ \A j \in 1..(i - 1) : innerLog[j] # End) =>
        outLog[i] = Chunk(Convert(Flatten(SubSeq(innerLog, 1, i))))

\* C5: for an Active response, a read error of the wrapped body is returned
\* on the same pull, and no later pull of the same body returns a data chunk.
C5_NoChunkAfterError ==
  mode = "Active" =>
    \A i \in Pulls :
      innerLog[i].tag = "Err" =>
        /\ outLog[i] = innerLog[i]
        /\ \A j \in Pulls : j > i => outLog[j].tag # "Chunk"

\* C6: for an Active response, every pull after the one that emitted the
\* converted chunk reports "no more chunks".
C6_EndAfterConverted ==
  mode = "Active" =>
    \A i \in Pulls :
      outLog[i].tag = "Chunk" => \A j \in Pulls : j > i => outLog[j] = End

\* C7: for an Active response, a pull that leaves the accumulation incomplete
\* returns neither a data chunk nor "no more chunks".
C7_PendingUntilComplete ==
  [][ ( /\ mode = "Active"
        /\ Len(outLog') = Len(outLog) + 1
        /\ ~is_complete(bodySize, Len(buffer')) ) =>
      outLog'[Len(outLog')].tag \notin {"Chunk", "End"} ]_vars

\* C8 as stated: for a body of declared exact size delivered without error in
\* one or more chunks, the first converted chunk the Active body emits (if any) is the one it
\* emits when the same bytes arrive as a single chunk under the same
\* declared size.
C8_ChunkingInvariant ==
  ( /\ mode = "Active" /\ ErrorFree /\ Ended /\ ChunksOf(innerLog) # << >>
    /\ bodySize.kind \in {"Sized", "Sized64"} ) =>
    FirstChunk(outLog) =
      FirstChunk(Drain("Active", <<Chunk(Flatten(innerLog)), End>>,
                       get_buffer_with_capacity(bodySize), bodySize))

\* C8 amended: when the declared exact size equals the total length of the
\* delivered bytes, every converted chunk the Active body emits is the
\* conversion of the concatenation of the source chunks, at least one is
\* emitted, and it is the chunk emitted for the single-chunk delivery.
C8_ChunkingInvariantHonestSize ==
  ( /\ mode = "Active" /\ ErrorFree /\ Ended /\ ChunksOf(innerLog) # << >>
    /\ bodySize.kind \in {"Sized", "Sized64"}
    /\ bodySize.n = Len(Flatten(innerLog)) ) =>
    /\ ChunksOf(outLog) # << >>
    /\ \A k \in 1..Len(ChunksOf(outLog)) :
         ChunksOf(outLog)[k] = Chunk(Convert(Flatten(innerLog)))
    /\ FirstChunk(outLog) =
         FirstChunk(Drain("Active", <<Chunk(Flatten(innerLog)), End>>,
                          get_buffer_with_capacity(bodySize), bodySize))

\* C8 witness: a body of declared size 2 arrived as two one-byte chunks and
\* the conversion of both bytes was emitted on the second pull.
C8_Witness ==
  /\ mode = "Active"
  /\ bodySize = [kind |-> "Sized", n |-> 2]
  /\ innerLog = <<Chunk(<<"a">>), Chunk(<<"FF">>), End>>
  /\ outLog = <<Pending, Chunk(Convert(<<"a", "FF">>)), End>>

\* C9: the body is Active exactly when the response produced downstream
\* carries a content-type header equal to "text/markdown", and no step after
\* wrapping changes the mode.
C9_ModeSelection ==
  /\ [](stage = "body" =>
          (mode = "Active" <=> origHeaders["content-type"] = "text/markdown"))
  /\ [][stage = "body" => mode' = mode]_vars

\* C9 witness: a response whose content-type differs from the source media
\* type only by case was wrapped as Inactive and has been pulled.
C9_Witness ==
  /\ stage = "body"
  /\ origHeaders["content-type"] = "Text/Markdown"
  /\ mode = "Inactive"
  /\ outLog # << >>

\* C10: wrapping keeps the status and every header other than content-type;
\* Active sets content-type to "text/html", Inactive keeps all headers.
C10_HeaderFrame ==
  stage = "body" =>
    /\ status = origStatus
    /\ \A h \in HeaderNames \ {"content-type"} : headers[h] = origHeaders[h]
    /\ mode = "Active" => headers["content-type"] = "text/html"
    /\ mode = "Inactive" => headers = origHeaders

\* C10 witness: an Active response that carried content-length and etag was
\* wrapped and kept both.
C10_Witness ==
  /\ stage = "body"
  /\ mode = "Active"
  /\ origHeaders["content-length"] = "2"
  /\ origHeaders["etag"] = "v1"
  /\ headers["content-type"] = "text/html"
  /\ headers["content-length"] = "2"

\* C11: an Active Dual-Mode body reports the declared size unknown/streaming
\* in every state, whatever the declared size of the wrapped body.
C11_ActiveSizeIsStream ==
  (stage = "body" /\ mode = "Active") => size(mode, bodySize) = Stream

\* C11 witness: an Active body wrapping a body of declared exact size 2 has
\* accumulated, emitted its converted chunk and reported the end.
C11_Witness ==
  /\ mode = "Active"
  /\ bodySize = [kind |-> "Sized64", n |-> 2]
  /\ outLog = <<Pending, Chunk(Convert(<<"a", "a">>)), End>>

\* C12: a pull returns an error only when the wrapped body returned that
\* error on the same pull (one pull of the wrapped body per pull), and a
\* chunk that completes the accumulation is answered with the converted
\* chunk whatever bytes were accumulated, invalid UTF-8 included.
C12_ErrorsOnlyFromWrappedBody ==
  stage = "body" =>
    /\ Len(outLog) = Len(innerLog)
    /\ \A i \in Pulls : outLog[i].tag = "Err" => outLog[i] = innerLog[i]
    /\ mode = "Active" =>
         \A i \in Pulls :
           ( /\ innerLog[i].tag = "Chunk"
             /\ is_complete(bodySize, Len(Flatten(SubSeq(innerLog, 1, i)))) )
             => outLog[i] = Chunk(Convert(Flatten(SubSeq(innerLog, 1, i))))

\* C12 witness: an Active body accumulated an invalid byte, emitted the
\* conversion with the replacement character, and on the next pull passed an
\* error of the wrapped body through.
C12_Witness ==
  /\ mode = "Active"
  /\ bodySize = [kind |-> "Sized", n |-> 1]
  /\ innerLog = <<Chunk(<<"FF">>), Err("E1")>>
  /\ outLog = << Chunk(<<ShellOpen, "<p>", "EF", "BF", "BD", "</p>", "\n",
                         ShellClose>>),
                 Err("E1") >>

\* C14: when an Active pull returns Pending after consuming a chunk of the
\* wrapped body it has woken the caller's waker; it returns Pending without
\* having done so only when the wrapped body itself returned Pending.
C14_NoLostWakeup ==
  ( /\ mode = "Active"
    /\ outLog # << >>
    /\ outLog[Len(outLog)] = Pending ) =>
    /\ innerLog[Len(innerLog)].tag = "Chunk" => woke
    /\ ~woke => innerLog[Len(innerLog)] = Pending

\* C14 witness: an Active body of declared size 2 consumed a one-byte chunk,
\* answered Pending and woke the task.
C14_Witness ==
  /\ mode = "Active"
  /\ bodySize = [kind |-> "Sized", n |-> 2]
  /\ innerLog = <<Chunk(<<"a">>)>>
  /\ outLog = <<Pending>>
  /\ woke

\* C16: when a chunk takes the accumulated length of an Active body to or
\* past the declared exact size, the whole chunk is appended and that pull
\* returns the conversion of all accumulated bytes, the excess included.
C16_SizeIsThresholdNotCap ==
  [][ ( /\ mode = "Active"
        /\ bodySize.kind \in {"Sized", "Sized64"}
        /\ Len(innerLog') = Len(innerLog) + 1
        /\ innerLog'[Len(innerLog')].tag = "Chunk"
        /\ Len(buffer) + Len(innerLog'[Len(innerLog')].data) >= bodySize.n )
      => /\ buffer' = buffer \o innerLog'[Len(innerLog')].data
         /\ outLog'[Len(outLog')] = Chunk(Convert(buffer')) ]_vars

\* C16 witness: an Active body of declared size 1 received a two-byte chunk
\* and emitted the conversion of both bytes.
C16_Witness ==
  /\ mode = "Active"
  /\ bodySize = [kind |-> "Sized", n |-> 1]
  /\ innerLog = <<Chunk(<<"a", "b">>)>>
  /\ buffer = <<"a", "b">>
  /\ outLog = <<Chunk(Convert(<<"a", "b">>))>>

\* C17: in every state of an Active body the buffer is the concatenation, in
\* arrival order, of the chunks the wrapped body has returned, and no step
\* shortens it.
C17_BufferIsConcatenation ==
  /\ []((stage = "body" /\ mode = "Active") => buffer = Flatten(innerLog))
  /\ [][ mode = "Active" =>
           /\ Len(buffer') >= Len(buffer)
           /\ SubSeq(buffer', 1, Len(buffer)) = buffer ]_vars

\* C17 witness: an Active body still holds both received bytes after it
\* emitted the converted chunk and then passed an error through.
C17_Witness ==
  /\ mode = "Active"
  /\ bodySize = [kind |-> "Sized", n |-> 1]
  /\ innerLog = <<Chunk(<<"a">>), Chunk(<<"FF">>), Err("E1")>>
  /\ buffer = <<"a", "FF">>

\* C18: for an Active body of declared exact size n > 0 whose wrapped body
\* reports its end, without error, after fewer than n bytes, that pull
\* returns "no more chunks" and no pull up to it returned a data chunk or an
\* error.
C18_ShortBodyEndsSilently ==
  ( /\ mode = "Active"
    /\ bodySize.kind \in {"Sized", "Sized64"}
    /\ bodySize.n > 0 ) =>
    \A i \in Pulls :
      ( /\ innerLog[i] = End
        /\ \A j \in 1..i : innerLog[j].tag # "Err"
        /\ Len(Flatten(SubSeq(innerLog, 1, i))) < bodySize.n ) =>
        /\ outLog[i] = End
        /\ \A j \in 1..i : outLog[j].tag \notin {"Chunk", "Err"}

\* C18 witness: an Active body of declared size 2 received one byte, then the
\* end of the wrapped body, and answered Pending and then the end.
C18_Witness ==
  /\ mode = "Active"
  /\ bodySize = [kind |-> "Sized", n |-> 2]
  /\ innerLog = <<Chunk(<<"a">>), End>>
  /\ outLog = <<Pending, End>>
  /\ buffer = <<"a">>

\* C13: under LiveSpec, an Active body whose wrapped body declares an exact
\* size n > 0 eventually has emitted a data chunk and, on a later pull,
\* reported "no more chunks".
C13_EventuallyConvertedThenEnd ==
  ( /\ stage = "body"
    /\ mode = "Active"
    /\ bodySize.kind \in {"Sized", "Sized64"}
    /\ bodySize.n > 0 )
    ~> (\E i, j \in Pulls :
          i < j /\ outLog[i].tag = "Chunk" /\ outLog[j] = End)

\* C13 witness: a body of declared size 2 stalled once between its two
\* one-byte chunks; the converted chunk and then the end were returned.
C13_Witness ==
  /\ mode = "Active"
  /\ bodySize = [kind |-> "Sized", n |-> 2]
  /\ innerLog = <<Chunk(<<"a">>), Pending, Chunk(<<"FF">>), End>>
  /\ outLog = <<Pending, Pending, Chunk(Convert(<<"a", "FF">>)), End>>

\* C15: with the pulls on two responses interleaved, the buffer of each
\* response holds only bytes of its own wrapped body (the concatenation of
\* its chunks when Active, nothing when Inactive), and the results of its
\* pulls are those of the same body pulled alone.
C15_ResponsesIsolated ==
  \A r \in Responses :
    resp[r].mode # "Unwrapped" =>
      /\ \A i \in 1..Len(resp[r].buffer) : resp[r].buffer[i] = PairByte(r)
      /\ resp[r].buffer =
           (IF resp[r].mode = "Active" THEN Flatten(resp[r].innerLog)
            ELSE << >>)
      /\ resp[r].outLog =
           Drain(resp[r].mode, resp[r].innerLog,
                 get_buffer_with_capacity(resp[r].bodySize),
                 resp[r].bodySize)

\* C15 witness: an Active response accumulated and converted two of its own
\* bytes while an Inactive and pulled response was in flight.
C15_Witness ==
  /\ resp[1].mode = "Active"
  /\ resp[1].bodySize = [kind |-> "Sized", n |-> 2]
  /\ resp[1].buffer = <<"a", "a">>
  /\ resp[1].outLog = <<Pending, Chunk(Convert(<<"a", "a">>))>>
  /\ resp[2].mode = "Inactive"
  /\ resp[2].outLog = <<Chunk(<<"b">>), End>>

====
